---- MODULE Spec2Model ----
(***************************************************************************)
(* TMSU tag implications: the implication table (database package), the   *)
(* query path of the file store (QueryFiles / QueryFileCount) and the     *)
(* rewriting of a query expression by the implications that reach its     *)
(* leaves (addImpliedTags and the worklist loop below it).                 *)
(***************************************************************************)
EXTENDS Integers, Sequences, FiniteSets, Bags, TLC

VARIABLES
    table,                \* the implication table: a bag of rows
    pc,                   \* "idle" | "returned" | "loop" | "done"
    err,                  \* the error the last call returned
    call,                 \* the call being answered: its name and arguments
    before,               \* the table as the call found it
    implications,         \* the implications handed to the expander
    executed,             \* the expression handed to database.QueryFiles/-Count
    log,                  \* the calls a query handler made, in order
    expression,           \* applyImplicationsForTagAndValue: accumulated expression
    relevantImplications, \* applyImplicationsForTagAndValue: the worklist
    index                 \* applyImplicationsForTagAndValue: loop index (1-based)

vars == <<table, pc, err, call, before, implications, executed, log,
          expression, relevantImplications, index>>

storeVars == <<table>>
callVars == <<call, before>>
queryVars == <<implications, executed, log>>
loopVars == <<expression, relevantImplications, index>>

-----------------------------------------------------------------------------
(* The tag and value tables the implication rows refer to.                 *)

\* rows of table tag (id, name); names are unique
TagTable ==
    { [Id |-> 1, Name |-> "dog"], [Id |-> 2, Name |-> "animal"],
      [Id |-> 3, Name |-> "cat"], [Id |-> 4, Name |-> "puppy"] }

\* rows of table value (id, name); names are unique
ValueTable == { [Id |-> 1, Name |-> "big"] }

\* entities.Value{}: the zero value a missing value_id is read as
NoValue == [Id |-> 0, Name |-> ""]

\* the names in the order the database collates them (NULL first)
Collation == <<"", "animal", "big", "cat", "dog", "puppy">>

Rank(name) == CHOOSE i \in DOMAIN Collation : Collation[i] = name

TagById(id) == CHOOSE t \in TagTable : t.Id = id

ValueById(id) ==
    IF \E v \in ValueTable : v.Id = id
    THEN CHOOSE v \in ValueTable : v.Id = id
    ELSE NoValue

\* entities.TagValuePair values the callers pass: every tag alone, and dog=big
TagValuePairs ==
    { [TagId |-> t.Id, ValueId |-> 0] : t \in TagTable }
        \cup { [TagId |-> 1, ValueId |-> 1] }

\* a row of table implication
Row(tagValuePair, impliedTagValuePair) ==
    [ tag_id |-> tagValuePair.TagId, value_id |-> tagValuePair.ValueId,
      implied_tag_id |-> impliedTagValuePair.TagId,
      implied_value_id |-> impliedTagValuePair.ValueId ]

Rows == { Row(p, q) : p \in TagValuePairs, q \in TagValuePairs }

\* the most rows the table is let to hold
MaxRows == 2

NoError == "nil"
StorageError == "Exec: storage error"
ImplicationsError == "Implications: storage error"
NoSuchImplicationError == "no such implication"
Panic == "panic"

\* the bag without any copy of the rows in gone
Without(bag, gone) == [ r \in (DOMAIN bag) \ gone |-> bag[r] ]

-----------------------------------------------------------------------------
(* database: the implication table.                                        *)

\* the key of table implication: its four id columns
PrimaryKey(row) ==
    <<row.tag_id, row.value_id, row.implied_tag_id, row.implied_value_id>>

Conflicts(bag, row) == \E r \in DOMAIN bag : PrimaryKey(r) = PrimaryKey(row)

\* INSERT with every row accepted
InsertAlways(bag, row) == bag (+) SetToBag({row})

\* INSERT OR IGNORE INTO implication ... VALUES (?1, ?2, ?3, ?4)
InsertOrIgnore(bag, row) ==
    IF Conflicts(bag, row) THEN bag ELSE bag (+) SetToBag({row})

\* DELETE ... WHERE tag_id = ?1 AND value_id = ?2 AND implied_tag_id = ?3
\* with the implied value left out of the match
MatchesDeleteLoose(r, row) ==
    /\ r.tag_id = row.tag_id
    /\ r.value_id = row.value_id
    /\ r.implied_tag_id = row.implied_tag_id

\* WHERE tag_id = ?1 AND value_id = ?2 AND implied_tag_id = ?3 AND implied_value_id = ?4
MatchesDelete(r, row) ==
    /\ r.tag_id = row.tag_id
    /\ r.value_id = row.value_id
    /\ r.implied_tag_id = row.implied_tag_id
    /\ r.implied_value_id = row.implied_value_id

\* WHERE tag_id = ?1, the implied side left out
MatchesTagIdImplyingOnly(r, tagId) == r.tag_id = tagId

\* WHERE tag_id = ?1 OR implied_tag_id = ?1
MatchesTagId(r, tagId) == r.tag_id = tagId \/ r.implied_tag_id = tagId

\* WHERE value_id = ?1 OR implied_value_id = ?1
MatchesValueId(r, valueId) == r.value_id = valueId \/ r.implied_value_id = valueId

\* result.RowsAffected() of a DELETE that removes the rows in gone
RowsAffected(bag, gone) ==
    BagCardinality([ r \in gone |-> bag[r] ])

Returns(e) == pc' = "returned" /\ err' = e

\* a call arrives: the program is idle, and the table is as the call finds it
Called(c) == pc = "idle" /\ call' = c /\ before' = table

AddImplication(tagValuePair, impliedTagValuePair) ==
    LET row == Row(tagValuePair, impliedTagValuePair) IN
    /\ Called([op |-> "AddImplication", row |-> row])
    /\ BagCardinality(InsertOrIgnore(table, row)) <= MaxRows
    /\ \E fault \in BOOLEAN :
          IF fault
          THEN table' = table /\ Returns(StorageError)
          ELSE table' = InsertOrIgnore(table, row) /\ Returns(NoError)
    /\ UNCHANGED <<queryVars, loopVars>>

DeleteImplication(tagValuePair, impliedTagValuePair) ==
    LET row == Row(tagValuePair, impliedTagValuePair)
        gone == { r \in DOMAIN table : MatchesDelete(r, row) }
        rowsAffected == RowsAffected(table, gone)
    IN
    /\ Called([op |-> "DeleteImplication", row |-> row])
    /\ \E fault \in BOOLEAN :
          IF fault
          THEN table' = table /\ Returns(StorageError)
          ELSE /\ table' = Without(table, gone)
               /\ IF rowsAffected = 0 THEN Returns(NoSuchImplicationError)
                  ELSE IF rowsAffected > 1 THEN Returns(Panic)
                  ELSE Returns(NoError)
    /\ UNCHANGED <<queryVars, loopVars>>

DeleteImplicationsByTagId(tagId) ==
    /\ Called([op |-> "DeleteImplicationsByTagId", tagId |-> tagId])
    /\ \E fault \in BOOLEAN :
          IF fault
          THEN table' = table /\ Returns(StorageError)
          ELSE /\ table' = Without(table, { r \in DOMAIN table : MatchesTagId(r, tagId) })
               /\ Returns(NoError)
    /\ UNCHANGED <<queryVars, loopVars>>

DeleteImplicationsByValueId(valueId) ==
    /\ Called([op |-> "DeleteImplicationsByValueId", valueId |-> valueId])
    /\ \E fault \in BOOLEAN :
          IF fault
          THEN table' = table /\ Returns(StorageError)
          ELSE /\ table' = Without(table, { r \in DOMAIN table : MatchesValueId(r, valueId) })
               /\ Returns(NoError)
    /\ UNCHANGED <<queryVars, loopVars>>

-----------------------------------------------------------------------------
(* database.Implications: the rows read back as entities, in name order.   *)

\* readImplication: a row joined with the tag and value tables
readImplication(row) ==
    [ ImplyingTag |-> TagById(row.tag_id),
      ImplyingValue |-> ValueById(row.value_id),
      ImpliedTag |-> TagById(row.implied_tag_id),
      ImpliedValue |-> ValueById(row.implied_value_id) ]

\* ORDER BY tag.id, value.id, implied_tag.id, implied_value.id
OrderKeyById(row) == PrimaryKey(row)

\* ORDER BY tag.name, value.name, implied_tag.name, implied_value.name
OrderKey(row) ==
    LET i == readImplication(row) IN
    << Rank(i.ImplyingTag.Name), Rank(i.ImplyingValue.Name),
       Rank(i.ImpliedTag.Name), Rank(i.ImpliedValue.Name) >>

\* lexicographic a <= b on the four sort columns
KeyLeq(a, b) ==
    \/ a = b
    \/ \E k \in 1..4 : a[k] < b[k] /\ \A j \in 1..(k - 1) : a[j] = b[j]

Repeat(x, n) == [ k \in 1..n |-> x ]

RECURSIVE readImplications(_)
readImplications(bag) ==
    IF DOMAIN bag = {} THEN <<>>
    ELSE LET first == CHOOSE r \in DOMAIN bag :
                          \A o \in DOMAIN bag : KeyLeq(OrderKey(r), OrderKey(o))
         IN Repeat(readImplication(first), bag[first])
                \o readImplications(Without(bag, {first}))

\* database.Implications(tx) when the query succeeds
Implications(bag) == readImplications(bag)

-----------------------------------------------------------------------------
(* query expressions                                                       *)

EmptyExpression == [type |-> "Empty"]
TagExpression(name) == [type |-> "Tag", Name |-> name]
ValueExpression(name) == [type |-> "Value", Name |-> name]
ComparisonExpression(tag, operator, value) ==
    [type |-> "Comparison", Tag |-> tag, Operator |-> operator, Value |-> value]
OrExpression(left, right) ==
    [type |-> "Or", LeftOperand |-> left, RightOperand |-> right]
AndExpression(left, right) ==
    [type |-> "And", LeftOperand |-> left, RightOperand |-> right]
NotExpression(operand) == [type |-> "Not", Operand |-> operand]

-----------------------------------------------------------------------------
(* entities.Implications                                                   *)

\* implications.ThatImply(tagName, valueName): those whose implied side is the pair
ThatImply(impls, tagName, valueName) ==
    SelectSeq(impls, LAMBDA i : i.ImpliedTag.Name = tagName
                                    /\ i.ImpliedValue.Name = valueName)

-----------------------------------------------------------------------------
(* applyImplicationsForTagAndValue                                         *)

\* predicate: the same implying (tag id, value id)
SameImplyingPair(implication, furtherImplication) ==
    /\ implication.ImplyingTag.Id = furtherImplication.ImplyingTag.Id
    /\ implication.ImplyingValue.Id = furtherImplication.ImplyingValue.Id

\* the membership test with the worklist never consulted
NeverListed(relevant, furtherImplication) == FALSE

\* relevantImplications.Any(predicate)
AlreadyListed(relevant, furtherImplication) ==
    \E k \in DOMAIN relevant : SameImplyingPair(relevant[k], furtherImplication)

\* for _, furtherImplication := range furtherImplications { if !Any { append } }
RECURSIVE AppendFurther(_, _)
AppendFurther(relevant, furtherImplications) ==
    IF furtherImplications = <<>> THEN relevant
    ELSE LET furtherImplication == Head(furtherImplications) IN
         AppendFurther(IF AlreadyListed(relevant, furtherImplication)
                       THEN relevant
                       ELSE Append(relevant, furtherImplication),
                       Tail(furtherImplications))

\* the OR-term always a bare tag
ImplyingTermTagOnly(relevantImplication) ==
    TagExpression(relevantImplication.ImplyingTag.Name)

\* the OR-term of a worklist entry: its implying tag, or tag = value
ImplyingTerm(relevantImplication) ==
    LET tagExpression == TagExpression(relevantImplication.ImplyingTag.Name) IN
    IF relevantImplication.ImplyingValue.Id # 0
    THEN ComparisonExpression(tagExpression, "=",
                              ValueExpression(relevantImplication.ImplyingValue.Name))
    ELSE tagExpression

\* the worklist after an iteration that looks no further
FurtherNone(relevant, relevantImplication, impls) == relevant

\* the worklist after the iteration for relevantImplication
Further(relevant, relevantImplication, impls) ==
    AppendFurther(relevant,
                  ThatImply(impls, relevantImplication.ImplyingTag.Name,
                            relevantImplication.ImplyingValue.Name))

\* the loop from position i on, to its end
RECURSIVE Loop(_, _, _, _)
Loop(expr, relevant, i, impls) ==
    IF i <= Len(relevant)
    THEN Loop(OrExpression(expr, ImplyingTerm(relevant[i])),
              Further(relevant, relevant[i], impls), i + 1, impls)
    ELSE expr

applyImplicationsForTagAndValue(expr, tagName, valueName, impls) ==
    Loop(expr, ThatImply(impls, tagName, valueName), 1, impls)

applyImplicationsForTag(tagExpression, impls) ==
    applyImplicationsForTagAndValue(tagExpression, tagExpression.Name, "", impls)

\* the operator test left out
IsAnyComparison(comparisonExpression) == TRUE

\* comparisonExpression.Operator != "=" returns early
IsEquality(comparisonExpression) == comparisonExpression.Operator = "="

applyImplicationsForComparison(comparisonExpression, impls) ==
    IF ~IsEquality(comparisonExpression)
    THEN comparisonExpression
    ELSE applyImplicationsForTagAndValue(comparisonExpression,
             comparisonExpression.Tag.Name, comparisonExpression.Value.Name, impls)

RECURSIVE addImpliedTagsRecursive(_, _)
addImpliedTagsRecursive(expr, impls) ==
    CASE expr.type = "Or" ->
           OrExpression(addImpliedTagsRecursive(expr.LeftOperand, impls),
                        addImpliedTagsRecursive(expr.RightOperand, impls))
      [] expr.type = "And" ->
           AndExpression(addImpliedTagsRecursive(expr.LeftOperand, impls),
                         addImpliedTagsRecursive(expr.RightOperand, impls))
      [] expr.type = "Not" ->
           NotExpression(addImpliedTagsRecursive(expr.Operand, impls))
      [] expr.type = "Tag" -> applyImplicationsForTag(expr, impls)
      [] expr.type = "Comparison" -> applyImplicationsForComparison(expr, impls)
      [] expr.type = "Empty" -> expr

-----------------------------------------------------------------------------
(* storage: the query path                                                 *)

\* no expression: database.QueryFiles / QueryFileCount was not called
NotExecuted == [type |-> "None"]

Call(name, e) == [call |-> name, err |-> e]

\* addImpliedTags: the expression and error it returns, the implications it
\* read (nil when the read fails) and the calls it makes
addImpliedTags(expr, bag, fetchFails) ==
    LET fetched == IF fetchFails THEN <<>> ELSE Implications(bag)
        fetchErr == IF fetchFails THEN ImplicationsError ELSE NoError
    IN  \* err != nil builds an error value and drops it
        [ expression |-> addImpliedTagsRecursive(expr, fetched),
          err |-> NoError,
          implications |-> fetched,
          calls |-> <<Call("Implications", fetchErr),
                      Call("addImpliedTagsRecursive", NoError)>> ]

\* the handler with the explicitOnly switch ignored
ExpandsAlways(explicitOnly) == TRUE

\* if !explicitOnly { expression, err = storage.addImpliedTags(tx, expression) }
Expands(explicitOnly) == ~explicitOnly

\* the body QueryFiles and QueryFileCount share; databaseQuery names the
\* database function the expression is handed to
QueryHandler(expr, explicitOnly, databaseQuery) ==
    /\ Called([op |-> databaseQuery, expression |-> expr, explicitOnly |-> explicitOnly])
    /\ IF Expands(explicitOnly)
       THEN \E fetchFails \in BOOLEAN :
              LET r == addImpliedTags(expr, table, fetchFails) IN
              /\ implications' = r.implications
              /\ IF r.err # NoError
                 THEN /\ executed' = NotExecuted
                      /\ log' = r.calls
                      /\ Returns(r.err)
                 ELSE /\ executed' = r.expression
                      /\ log' = Append(r.calls, Call("database." \o databaseQuery, NoError))
                      /\ Returns(NoError)
       ELSE /\ implications' = <<>>
            /\ executed' = expr
            /\ log' = <<Call("database." \o databaseQuery, NoError)>>
            /\ Returns(NoError)
    /\ UNCHANGED <<storeVars, loopVars>>

QueryFileCount(expr, explicitOnly) ==
    QueryHandler(expr, explicitOnly, "QueryFileCount")

QueryFiles(expr, explicitOnly) ==
    QueryHandler(expr, explicitOnly, "QueryFiles")

\* the caller takes the result; the next call starts afresh
Return ==
    /\ pc = "returned"
    /\ pc' = "idle"
    /\ err' = NoError
    /\ call' = [op |-> "none"]
    /\ before' = EmptyBag
    /\ implications' = <<>>
    /\ executed' = NotExecuted
    /\ log' = <<>>
    /\ UNCHANGED <<storeVars, loopVars>>

-----------------------------------------------------------------------------
(* the expressions callers pass                                            *)

TagLeaves == { TagExpression(t.Name) : t \in TagTable }

ComparisonLeaves ==
    { ComparisonExpression(TagExpression("dog"), operator, ValueExpression("big")) :
        operator \in {"=", ">"} }

Leaves == TagLeaves \cup ComparisonLeaves \cup {EmptyExpression}

Operands ==
    { TagExpression("animal"), TagExpression("dog"),
      ComparisonExpression(TagExpression("dog"), "=", ValueExpression("big")) }

Expressions ==
    Leaves
      \cup { NotExpression(e) : e \in Leaves }
      \cup { AndExpression(a, b) : a \in Operands, b \in Operands }
      \cup { OrExpression(a, NotExpression(b)) : a \in Operands, b \in Operands }

-----------------------------------------------------------------------------
Init ==
    /\ table = EmptyBag
    /\ pc = "idle"
    /\ err = NoError
    /\ call = [op |-> "none"]
    /\ before = EmptyBag
    /\ implications = <<>>
    /\ executed = NotExecuted
    /\ log = <<>>
    /\ expression = EmptyExpression
    /\ relevantImplications = <<>>
    /\ index = 1

Next ==
    \/ \E p \in TagValuePairs, q \in TagValuePairs : AddImplication(p, q)
    \/ \E p \in TagValuePairs, q \in TagValuePairs : DeleteImplication(p, q)
    \/ \E t \in TagTable : DeleteImplicationsByTagId(t.Id)
    \/ \E v \in ValueTable : DeleteImplicationsByValueId(v.Id)
    \/ \E e \in Expressions, explicitOnly \in BOOLEAN : QueryFileCount(e, explicitOnly)
    \/ \E e \in Expressions, explicitOnly \in BOOLEAN : QueryFiles(e, explicitOnly)
    \/ Return

Spec == Init /\ [][Next]_vars

-----------------------------------------------------------------------------
(* The expansion of one leaf, one loop iteration at a time.                *)

\* the most implications the expander is handed
MaxImplications == 3

RECURSIVE SubsetsUpTo(_, _)
SubsetsUpTo(S, n) ==
    IF n = 0 THEN {{}}
    ELSE LET smaller == SubsetsUpTo(S, n - 1) IN
         smaller \cup { T \cup {x} : T \in smaller, x \in S }

\* addImpliedTagsRecursive reaches a leaf with the implications of some table
InitExpand ==
    /\ table \in { SetToBag(S) : S \in SubsetsUpTo(Rows, MaxImplications) }
    /\ before = table
    /\ pc = "leaf"
    /\ err = NoError
    /\ \E leaf \in TagLeaves \cup ComparisonLeaves :
          /\ call = [op |-> "addImpliedTagsRecursive", expression |-> leaf]
          /\ expression = leaf
    /\ implications = Implications(table)
    /\ executed = NotExecuted
    /\ log = <<>>
    /\ relevantImplications = <<>>
    /\ index = 1

\* case query.TagExpression: applyImplicationsForTag up to the loop
EnterForTag ==
    /\ pc = "leaf"
    /\ expression.type = "Tag"
    /\ relevantImplications' = ThatImply(implications, expression.Name, "")
    /\ index' = 1
    /\ pc' = "loop"
    /\ UNCHANGED <<table, err, callVars, queryVars, expression>>

\* case query.ComparisonExpression: applyImplicationsForComparison up to the loop
EnterForComparison ==
    /\ pc = "leaf"
    /\ expression.type = "Comparison"
    /\ IF ~IsEquality(expression)
       THEN pc' = "done" /\ UNCHANGED <<relevantImplications, index>>
       ELSE /\ relevantImplications' =
                   ThatImply(implications, expression.Tag.Name, expression.Value.Name)
            /\ index' = 1
            /\ pc' = "loop"
    /\ UNCHANGED <<table, err, callVars, queryVars, expression>>

\* one pass of the loop body: index < len(relevantImplications)
LoopIteration ==
    /\ pc = "loop"
    /\ index <= Len(relevantImplications)
    /\ expression' = OrExpression(expression, ImplyingTerm(relevantImplications[index]))
    /\ relevantImplications' =
           Further(relevantImplications, relevantImplications[index], implications)
    /\ index' = index + 1
    /\ UNCHANGED <<table, pc, err, callVars, queryVars>>

\* the loop condition fails: return expression
LoopExit ==
    /\ pc = "loop"
    /\ index > Len(relevantImplications)
    /\ pc' = "done"
    /\ UNCHANGED <<table, err, callVars, queryVars, loopVars>>

NextExpand ==
    \/ EnterForTag
    \/ EnterForComparison
    \/ LoopIteration
    \/ LoopExit

ExpandSpec == InitExpand /\ [][NextExpand]_vars

-----------------------------------------------------------------------------
(* Properties of the implication table (Spec).                             *)

Answered(op) == pc = "returned" /\ call.op = op

\* every row of bag other than row is in other, as many times
SameButFor(bag, other, rows) ==
    \A r \in (DOMAIN bag \cup DOMAIN other) \ rows : CopiesIn(r, bag) = CopiesIn(r, other)

\* C5: after any sequence of calls the table holds at most one row per four
\* ids; AddImplication of a stored implication leaves the table as it was and
\* returns no error of its own (only a failure of the store itself), so after
\* a successful AddImplication the implication is stored exactly once; and
\* DeleteImplication never finds more than one row, so it never panics.
C5_UniqueRows ==
    /\ \A r \in DOMAIN table : CopiesIn(r, table) = 1
    /\ err # Panic
    /\ Answered("AddImplication") /\ Conflicts(before, call.row)
          => table = before /\ err \in {NoError, StorageError}
    /\ Answered("AddImplication") /\ err = NoError
          => CopiesIn(call.row, table) = 1

\* AddImplication answered a call for an implication that was already stored
C5_Witness ==
    /\ Answered("AddImplication")
    /\ Conflicts(before, call.row)
    /\ err = NoError

\* C6: DeleteImplication of an implication that is not stored returns
\* NoSuchImplication and leaves the table as it was; of a stored one it
\* returns no error and removes that row and no other. (When the store itself
\* fails the table is as it was.)
C6_ExactDelete ==
    Answered("DeleteImplication") =>
        IF err = StorageError THEN table = before
        ELSE IF ~BagIn(call.row, before)
        THEN err = NoSuchImplicationError /\ table = before
        ELSE /\ err = NoError
             /\ ~BagIn(call.row, table)
             /\ SameButFor(table, before, {call.row})

\* a stored implication was deleted while another with the same implying pair
\* and implied tag stays
C6_Witness ==
    /\ Answered("DeleteImplication")
    /\ err = NoError
    /\ BagIn(call.row, before)
    /\ \E r \in DOMAIN table : MatchesDeleteLoose(r, call.row)

\* C7: after DeleteImplicationsByTagId(t) no row has t as its implying or its
\* implied tag id, and every row that had t on neither side is still there.
C7_Cascade ==
    Answered("DeleteImplicationsByTagId") /\ err = NoError =>
        LET touched == { r \in DOMAIN before \cup DOMAIN table :
                           r.tag_id = call.tagId \/ r.implied_tag_id = call.tagId }
        IN /\ \A r \in DOMAIN table : r \notin touched
           /\ SameButFor(table, before, touched)

\* the call removed a row that has t only as its implied tag and kept another
C7_Witness ==
    /\ Answered("DeleteImplicationsByTagId")
    /\ err = NoError
    /\ \E r \in DOMAIN before : r.implied_tag_id = call.tagId /\ r.tag_id # call.tagId
    /\ DOMAIN table # {}

-----------------------------------------------------------------------------
(* Properties of the query path (Spec).                                    *)

AnsweredQuery == pc = "returned" /\ call.op \in {"QueryFiles", "QueryFileCount"}

\* the names of the calls in log that are name
CallsOf(name) == { k \in DOMAIN log : log[k].call = name }

FetchFailed == \E k \in CallsOf("Implications") : log[k].err # NoError

\* C4: when the implications cannot be read for a query with explicitOnly
\* false, the query returns that error and hands nothing to the database.
C4_FetchErrorReturned ==
    AnsweredQuery /\ ~call.explicitOnly /\ FetchFailed
        => err = ImplicationsError /\ executed = NotExecuted

\* C8: with explicitOnly the implications are not read and the caller's
\* expression is what the database is asked; without it the implications are
\* read once, before the one descent that expands every leaf against what was
\* read (all the stored implications when the read succeeds), and the
\* database is asked the expanded expression last.
C8_Pipeline ==
    AnsweredQuery =>
        IF call.explicitOnly
        THEN /\ CallsOf("Implications") = {}
             /\ CallsOf("addImpliedTagsRecursive") = {}
             /\ executed = call.expression
             /\ log = <<Call("database." \o call.op, NoError)>>
        ELSE /\ CallsOf("Implications") = {1}
             /\ CallsOf("addImpliedTagsRecursive") = {2}
             /\ CallsOf("database." \o call.op) = {3}
             /\ Len(log) = 3
             /\ ~FetchFailed => implications = Implications(before)
             /\ executed = addImpliedTagsRecursive(call.expression, implications)

\* a query without explicitOnly read the implications and asked the database
\* an expression the expansion had added to
C8_Witness ==
    /\ AnsweredQuery
    /\ ~call.explicitOnly
    /\ ~FetchFailed
    /\ call.expression.type = "And"
    /\ executed # call.expression

-----------------------------------------------------------------------------
(* What a file matches.                                                    *)

\* a file's tag assignments: a set of (tag id, value id) pairs
Files == SUBSET TagValuePairs

ImplyingPair(i) == [TagId |-> i.ImplyingTag.Id, ValueId |-> i.ImplyingValue.Id]
ImpliedPair(i) == [TagId |-> i.ImpliedTag.Id, ValueId |-> i.ImpliedValue.Id]

\* the pair a Tag or Comparison(=) leaf asks for: value empty for a bare tag
Carries(file, tagName, valueName) ==
    \E p \in file : TagById(p.TagId).Name = tagName
                      /\ ValueById(p.ValueId).Name = valueName

\* whether the file's assignments match the expression as they stand
RECURSIVE Matches(_, _)
Matches(expr, file) ==
    CASE expr.type = "Empty" -> TRUE
      [] expr.type = "Tag" -> Carries(file, expr.Name, "")
      [] expr.type = "Comparison" -> Carries(file, expr.Tag.Name, expr.Value.Name)
      [] expr.type = "And" -> Matches(expr.LeftOperand, file) /\ Matches(expr.RightOperand, file)
      [] expr.type = "Or" -> Matches(expr.LeftOperand, file) \/ Matches(expr.RightOperand, file)
      [] expr.type = "Not" -> ~Matches(expr.Operand, file)

\* the pairs reachable from the file's assignments through the implications
RECURSIVE ImpliedClosure(_, _)
ImpliedClosure(file, impls) ==
    LET more == file \cup { ImpliedPair(impls[k]) :
                              k \in { j \in DOMAIN impls : ImplyingPair(impls[j]) \in file } }
    IN IF more = file THEN file ELSE ImpliedClosure(more, impls)

\* no comparison other than equality in the tree
RECURSIVE EqualityOnly(_)
EqualityOnly(expr) ==
    CASE expr.type \in {"And", "Or"} ->
           EqualityOnly(expr.LeftOperand) /\ EqualityOnly(expr.RightOperand)
      [] expr.type = "Not" -> EqualityOnly(expr.Operand)
      [] expr.type = "Comparison" -> expr.Operator = "="
      [] OTHER -> TRUE

\* C1: the expression the expander returns for E and the implications I is
\* matched by a file's own assignments exactly when E is matched by the
\* file's assignments together with every pair they reach through I.
C1_ClosureCorrect ==
    AnsweredQuery /\ ~call.explicitOnly /\ EqualityOnly(call.expression) =>
        \A file \in Files :
            Matches(executed, file)
                <=> Matches(call.expression, ImpliedClosure(file, implications))

\* a tree with a negation was expanded over a chain of two implications, one
\* of them with a value on its implying side
C1_Witness ==
    /\ AnsweredQuery
    /\ ~call.explicitOnly
    /\ call.expression.type = "Or"
    /\ EqualityOnly(call.expression)
    /\ Len(implications) = 2
    /\ ImpliedPair(implications[1]) = ImplyingPair(implications[2])
    /\ implications[1].ImplyingValue.Id # 0
    /\ \E file \in Files :
          Matches(executed, file) /\ ~Matches(call.expression, file)

-----------------------------------------------------------------------------
(* Properties of the expansion of one leaf (ExpandSpec).                   *)

\* the leaf the expansion started from
Leaf == call.expression

\* the terms of a left-nested chain Or(...Or(Or(t0, t1), t2)..., tn), in order
RECURSIVE Terms(_)
Terms(expr) ==
    IF expr.type = "Or"
    THEN Append(Terms(expr.LeftOperand), expr.RightOperand)
    ELSE <<expr>>

\* the (tag name, value name) a Tag or Comparison term stands for
TermPair(term) ==
    IF term.type = "Tag" THEN <<term.Name, "">>
    ELSE <<term.Tag.Name, term.Value.Name>>

Distinct(seq) == \A j, k \in DOMAIN seq : j # k => seq[j] # seq[k]

\* the implying pairs of the implications, those of the worklist, and the
\* ones the worklist has yet to list
ImplyingPairs(impls) == { ImplyingPair(impls[k]) : k \in DOMAIN impls }
Unlisted == ImplyingPairs(implications) \ ImplyingPairs(relevantImplications)

\* what is left to do: entries pending, and pairs that may still be appended
Measure == 2 * Cardinality(Unlisted) + (Len(relevantImplications) + 1 - index)

\* C2: every pass of the worklist loop appends only implications whose
\* implying pair no entry of the worklist has, one per pair, so each pass
\* strictly lowers a natural number: the loop ends after finitely many passes,
\* cycles and self-implications included.
C2_Terminates ==
    [][ LoopIteration =>
          /\ Len(relevantImplications') - Len(relevantImplications)
                = Cardinality(Unlisted) - Cardinality(Unlisted')
          /\ Measure' < Measure
          /\ Measure' >= 0
          /\ index' <= Len(relevantImplications') + 1 ]_vars

\* the loop ran to its end over implications that lead from the leaf's pair
\* back to it
C2_Witness ==
    /\ pc = "done"
    /\ Leaf.type = "Tag"
    /\ Len(relevantImplications) >= 2
    /\ \E k \in DOMAIN relevantImplications :
          /\ k >= 2
          /\ relevantImplications[k].ImplyingTag.Name = Leaf.Name
          /\ relevantImplications[k].ImplyingValue.Id = 0

\* C3 as claimed: no pair is the pair of two terms of the result, the leaf
\* counted as a term
C3_NoPairTwice ==
    pc = "done" => Distinct([ k \in DOMAIN Terms(expression) |->
                                TermPair(Terms(expression)[k]) ])

\* C3: the terms appended to the leaf are for pairwise different pairs, one
\* per entry of the worklist, and no two entries of the worklist have the same
\* implying pair; the leaf's own pair can come once more, among the appended
\* terms, when it implies itself through the implications.
C3_AppendedDistinct ==
    pc \in {"loop", "done"} =>
        LET terms == Terms(expression)
            appended == SubSeq(terms, 2, Len(terms))
        IN /\ terms[1] = Leaf
           /\ Len(appended) = index - 1
           /\ Distinct([ k \in DOMAIN appended |-> TermPair(appended[k]) ])
           /\ Distinct([ k \in DOMAIN relevantImplications |->
                           ImplyingPair(relevantImplications[k]) ])

\* an expansion ended with the leaf's pair among the appended terms, and
\* three terms appended
C3_Witness ==
    /\ pc = "done"
    /\ Len(Terms(expression)) = 4
    /\ \E k \in 2..4 : TermPair(Terms(expression)[k]) = TermPair(Leaf)

\* C9: a comparison whose operator is not "=" is returned as it is, whatever
\* the implications
C9_NonEqualityUnchanged ==
    pc = "done" /\ Leaf.type = "Comparison" /\ Leaf.Operator # "="
        => expression = Leaf /\ relevantImplications = <<>>

\* dog > big was returned with implications that imply dog = big and dog
C9_Witness ==
    /\ pc = "done"
    /\ Leaf.type = "Comparison"
    /\ Leaf.Operator = ">"
    /\ ThatImply(implications, Leaf.Tag.Name, Leaf.Value.Name) # <<>>
    /\ ThatImply(implications, Leaf.Tag.Name, "") # <<>>

\* the stored implications dog -> animal, cat -> animal, puppy -> dog
ExampleTable ==
    LET Bare(name) == [ TagId |-> (CHOOSE t \in TagTable : t.Name = name).Id,
                        ValueId |-> 0 ]
    IN SetToBag({ Row(Bare("dog"), Bare("animal")), Row(Bare("cat"), Bare("animal")),
                  Row(Bare("puppy"), Bare("dog")) })

\* Or(Or(Or(first, second), third), fourth) over bare tags
OrOfTags(first, second, third, fourth) ==
    OrExpression(OrExpression(OrExpression(TagExpression(first), TagExpression(second)),
                              TagExpression(third)),
                 TagExpression(fourth))

ExpandedLeaf == pc = "done" /\ (Leaf.type = "Tag" \/ Leaf.Operator = "=")

\* the pairs with a stored implication straight to the leaf's pair
DirectPairs ==
    { ImplyingPair(implications[k]) :
        k \in { j \in DOMAIN implications :
                  /\ implications[j].ImpliedTag.Name = TermPair(Leaf)[1]
                  /\ implications[j].ImpliedValue.Name = TermPair(Leaf)[2] } }

\* the result is the leaf and then one term per worklist entry, in worklist order
ChainInWorklistOrder ==
    Terms(expression) =
        <<Leaf>> \o [ k \in DOMAIN relevantImplications |->
                        ImplyingTerm(relevantImplications[k]) ]

\* the terms of pairs that imply the leaf's pair directly come before the
\* terms of pairs that reach it only through a longer chain
DirectFirst ==
    \A j, k \in DOMAIN relevantImplications :
        /\ ImplyingPair(relevantImplications[j]) \in DirectPairs
        /\ ImplyingPair(relevantImplications[k]) \notin DirectPairs
        => j < k

\* C10 as claimed: the chain is in worklist order, direct pairs first, and
\* the example yields animal OR dog OR cat OR puppy
C10_DogBeforeCat ==
    ExpandedLeaf =>
        /\ ChainInWorklistOrder
        /\ DirectFirst
        /\ table = ExampleTable /\ Leaf = TagExpression("animal")
              => expression = OrOfTags("animal", "dog", "cat", "puppy")

\* C10: the chain is in worklist order, direct pairs first; the example, its
\* implications read in the order of their implying tag names, yields
\* animal OR cat OR dog OR puppy: cat and dog before puppy, cat before dog.
C10_BreadthFirst ==
    ExpandedLeaf =>
        /\ ChainInWorklistOrder
        /\ DirectFirst
        /\ table = ExampleTable /\ Leaf = TagExpression("animal")
              => expression = OrOfTags("animal", "cat", "dog", "puppy")

\* the example: animal expanded over dog -> animal, cat -> animal, puppy -> dog
C10_Witness ==
    /\ pc = "done"
    /\ table = ExampleTable
    /\ Leaf = TagExpression("animal")
    /\ Len(relevantImplications) = 3

====
